---- MODULE Spec2Model ----
(***************************************************************************)
(* Model of searchDatasetData                                              *)
(* (packages/service/core/dataset/search/controller.ts): the recall /      *)
(* fusion / rerank / dedup / similarity-filter / token-trim pipeline of    *)
(* one search request, with the per-query recall tasks interleaved at      *)
(* their await points and the collaborators (embedding service, vector     *)
(* index, document store, lexical search, reranker, token counter)         *)
(* answering from small fixed or nondeterministic sets.                    *)
(*                                                                         *)
(* Scores and the similarity threshold are floats in the code; here they   *)
(* are integers (hundredths).  Texts are sequences of one-character        *)
(* strings.                                                                *)
(***************************************************************************)
EXTENDS Integers, Sequences, FiniteSets, TLC

(***************************************************************************)
(* Bounds of the model.                                                    *)
(***************************************************************************)
\* the longest list of queries of a request
MaxQueries == 2
\* how many times a collection's forbid flag changes while a request runs
MaxForbidChanges == 1
\* the longest filtered list handed to the token trim on its own
MaxTrimLen == 5

(***************************************************************************)
(* Program constants.                                                      *)
(***************************************************************************)
\* k of the per-source lists in every rank fusion
RrfK == 60
\* k of the rerank list in the final fusion
ReRankK == 58
\* the hard ceiling of the token trim lies this far above the limit
HardMargin == 500

(***************************************************************************)
(* Generic sequence helpers.                                               *)
(***************************************************************************)
Range(s) == {s[i] : i \in 1..Len(s)}

\* Array.prototype.slice(0, n)
Slice(s, n) == SubSeq(s, 1, IF n < Len(s) THEN n ELSE Len(s))

\* Array.prototype.findIndex, 0 when nothing is found
RECURSIVE FirstIndex(_, _, _)
FirstIndex(s, S, i) ==
    IF i > Len(s) THEN 0
    ELSE IF s[i] \in S THEN i
    ELSE FirstIndex(s, S, i + 1)

(***************************************************************************)
(* The document store, the vector index and the lexical index: the data    *)
(* the collaborators answer from.  Passage ids are numbers; passages 1..3  *)
(* are the ones the two indexes know, the others exist only as texts.      *)
(***************************************************************************)
Letters == {"a", "b"}
Digits == {"1"}
Alphabet == <<"a", "b", "1", " ", ",">>

Collections == {"c1", "c2"}

\* MongoDatasetData documents: q, a, the collection, the dataset and the
\* ids of the index fragments (indexes.dataId) of a passage
DatasetData(id) ==
    CASE id = 1 -> [q |-> <<"a", ",">>, a |-> <<"b">>, collectionId |-> "c1",
                    datasetId |-> "d1", indexes |-> {"i1", "i1b"}]
      [] id = 2 -> [q |-> <<"a">>, a |-> <<" ", "b">>, collectionId |-> "c2",
                    datasetId |-> "d1", indexes |-> {"i2"}]
      [] id = 3 -> [q |-> <<"b">>, a |-> <<"1">>, collectionId |-> "c1",
                    datasetId |-> "d2", indexes |-> {"i3"}]
      [] OTHER  -> [q |-> [j \in 1..id |-> "1"], a |-> <<>>, collectionId |-> "c2",
                    datasetId |-> "d2", indexes |-> {}]

IndexedPassages == 1..3

QueryStrings == {"qa", "qb"}

\* the datasetIds of the request, in order
datasetIds == <<"d1", "d2">>

\* getVectorsByText: the token cost of embedding a query
EmbeddingTokens(query) == IF query = "qa" THEN 2 ELSE 3

\* the vector index: for a query, every fragment hit best first
VectorIndex(query) ==
    IF query = "qa"
    THEN << [id |-> "i1",  collectionId |-> "c1", score |-> 90],
            [id |-> "i3",  collectionId |-> "c1", score |-> 35],
            [id |-> "i1b", collectionId |-> "c1", score |-> 40],
            [id |-> "i2",  collectionId |-> "c2", score |-> 30] >>
    ELSE << [id |-> "i3",  collectionId |-> "c1", score |-> 80],
            [id |-> "i1b", collectionId |-> "c1", score |-> 70],
            [id |-> "i2",  collectionId |-> "c2", score |-> 20] >>

\* the lexical index of one dataset: for a query, the passages best first
\* with their textScore
LexicalIndex(dataset, query) ==
    CASE dataset = "d1" /\ query = "qa" -> << [id |-> 2, score |-> 5], [id |-> 1, score |-> 3] >>
      [] dataset = "d1" /\ query = "qb" -> << [id |-> 1, score |-> 4] >>
      [] dataset = "d2" /\ query = "qa" -> << [id |-> 3, score |-> 4] >>
      [] OTHER -> << >>

(***************************************************************************)
(* Pure helpers of the pipeline.                                           *)
(***************************************************************************)
\* `${item.q}${item.a}` of a result item (items carry q and a of their passage)
QA(item) == DatasetData(item.id).q \o DatasetData(item.id).a

\* .replace(/[^\p{L}\p{N}]/gu, ''): drop everything but letters and digits
StripText(text) == SelectSeq(text, LAMBDA c : c \in Letters \cup Digits)

\* hashStr on the stripped text; a positional code over the alphabet, so that
\* two texts get the same hash exactly when they are the same text
CharCode(c) == FirstIndex(Alphabet, {c}, 1)

RECURSIVE hashStr(_)
hashStr(text) ==
    IF text = <<>> THEN 0
    ELSE hashStr(SubSeq(text, 1, Len(text) - 1)) * (Len(Alphabet) + 1)
         + CharCode(text[Len(text)])

\* (a faulty variant of TextKey: the text is hashed as it stands, nothing stripped)
TextKeyUnstripped(item) == hashStr(QA(item))

\* the key the duplicate filter compares
TextKey(item) == hashStr(StripText(QA(item)))

\* Array.prototype.sort((a, b) => b.score - a.score), which is stable
InsertByScore(sorted, x) ==
    LET n == Cardinality({i \in 1..Len(sorted) : sorted[i].score >= x.score})
    IN SubSeq(sorted, 1, n) \o <<x>> \o SubSeq(sorted, n + 1, Len(sorted))

RECURSIVE SortByScore(_)
SortByScore(s) ==
    IF s = <<>> THEN <<>>
    ELSE InsertByScore(SortByScore(SubSeq(s, 1, Len(s) - 1)), s[Len(s)])

\* a list of [id, score] records as result items carrying one score entry
\* {type, value, index} each, index being the position in the list
FormatResult(s, type) ==
    [i \in 1..Len(s) |->
        [id |-> s[i].id,
         score |-> << [type |-> type, value |-> s[i].score, index |-> i - 1] >>]]

(***************************************************************************)
(* countRecallLimit                                                        *)
(***************************************************************************)
countRecallLimit(mode) ==
    IF mode = "embedding" THEN [embeddingLimit |-> 100, fullTextLimit |-> 0]
    ELSE IF mode = "fullTextRecall" THEN [embeddingLimit |-> 0, fullTextLimit |-> 100]
    ELSE [embeddingLimit |-> 80, fullTextLimit |-> 60]

\* DatasetSearchModeMap[searchMode] ? searchMode : embedding
EffectiveSearchMode(mode) ==
    IF mode \in {"embedding", "fullTextRecall", "mixedRecall"} THEN mode ELSE "embedding"

(***************************************************************************)
(* embeddingRecall, after the embedding service answered                   *)
(***************************************************************************)
\* recallFromVectorStore: the `limit` best hits outside the forbidden
\* collections it is given
recallFromVectorStore(query, limit, forbidCollectionIdList) ==
    Slice(SelectSeq(VectorIndex(query),
                    LAMBDA hit : hit.collectionId \notin forbidCollectionIdList),
          limit)

\* MongoDatasetData.find of the hit passages, the score of the first (best)
\* hit among a passage's fragments, the sort and the formatting
HydrateEmbedding(results) ==
    LET hitIds == {results[i].id : i \in 1..Len(results)}
        hitCols == {results[i].collectionId : i \in 1..Len(results)}
        dataList == SelectSeq([i \in 1..Cardinality(IndexedPassages) |-> i],
                        LAMBDA p : /\ DatasetData(p).collectionId \in hitCols
                                   /\ DatasetData(p).indexes \cap hitIds # {})
        maxScore(p) ==
            LET k == FirstIndex([i \in 1..Len(results) |-> results[i].id],
                                DatasetData(p).indexes, 1)
            IN IF k = 0 THEN 0 ELSE results[k].score
        concatResults == [i \in 1..Len(dataList) |->
                             [id |-> dataList[i], score |-> maxScore(dataList[i])]]
    IN FormatResult(SortByScore(concatResults), "embedding")

(***************************************************************************)
(* fullTextRecall, when its limit is not 0                                 *)
(***************************************************************************)
\* one dataset's aggregate: $match, $sort, $limit, then the $lookup that
\* drops the hits of collections whose forbid flag is set when it runs
LexicalAggregate(dataset, query, limit, forbidNow) ==
    SelectSeq(Slice(LexicalIndex(dataset, query), limit),
              LAMBDA hit : DatasetData(hit.id).collectionId \notin forbidNow)

RECURSIVE FlatAggregates(_, _, _, _)
FlatAggregates(d, query, limit, forbidNow) ==
    IF d > Len(datasetIds) THEN <<>>
    ELSE LexicalAggregate(datasetIds[d], query, limit, forbidNow)
         \o FlatAggregates(d + 1, query, limit, forbidNow)

\* .flat(), the re-sort (the slice after it is discarded by the code) and
\* the formatting
FullTextSearch(query, limit, forbidNow) ==
    FormatResult(SortByScore(FlatAggregates(1, query, limit, forbidNow)), "fullText")

(***************************************************************************)
(* datasetSearchResultConcat (reciprocal rank fusion).  Its source is not  *)
(* part of the files at hand; it is modelled from its description: the     *)
(* item at 0-based position r of a list with constant k adds 1/(k+r+1) to  *)
(* the item's fused score, items are merged by id with their score entries *)
(* concatenated, and the output is sorted by fused score, best first, ties *)
(* in first-seen order.  Fused scores are kept exact as multiples of       *)
(* 1/RrfScale (a common multiple of 59..63: lists here hold at most three  *)
(* items).                                                                 *)
(***************************************************************************)
RrfScale == 59 * 60 * 61 * 31 * 21

RrfContribution(k, r) == RrfScale \div (k + r + 1)

RrfAddItem(acc, item, contribution) ==
    LET at == FirstIndex([i \in 1..Len(acc) |-> acc[i].id], {item.id}, 1)
    IN IF at = 0
       THEN Append(acc, [id |-> item.id, entries |-> item.score, score |-> contribution])
       ELSE [acc EXCEPT ![at] = [id |-> item.id,
                                 entries |-> acc[at].entries \o item.score,
                                 score |-> acc[at].score + contribution]]

RECURSIVE RrfAddList(_, _, _, _)
RrfAddList(acc, k, list, r) ==
    IF r >= Len(list) THEN acc
    ELSE RrfAddList(RrfAddItem(acc, list[r + 1], RrfContribution(k, r)), k, list, r + 1)

RECURSIVE RrfAddAll(_, _, _)
RrfAddAll(acc, arr, n) ==
    IF n > Len(arr) THEN acc
    ELSE RrfAddAll(RrfAddList(acc, arr[n].k, arr[n].list, 0), arr, n + 1)

datasetSearchResultConcat(arr) ==
    LET sorted == SortByScore(RrfAddAll(<<>>, arr, 1))
    IN [i \in 1..Len(sorted) |-> [id |-> sorted[i].id, score |-> sorted[i].entries]]

(***************************************************************************)
(* The stages of searchDatasetData after the recall.                       *)
(***************************************************************************)
\* the tail of multiQueryRecall: fuse the per-query lists, cut to the limit
RrfRecall(resList, limit) ==
    Slice(datasetSearchResultConcat([i \in 1..Len(resList) |->
                                        [k |-> RrfK, list |-> resList[i]]]),
          limit)

\* "remove same q and a data": keep the first item of every text key
RECURSIVE FilterSameFrom(_, _, _)
FilterSameFrom(list, i, seen) ==
    IF i > Len(list) THEN <<>>
    ELSE IF TextKey(list[i]) \in seen THEN FilterSameFrom(list, i + 1, seen)
    ELSE <<list[i]>> \o FilterSameFrom(list, i + 1, seen \cup {TextKey(list[i])})

filterSameDataResults(list) == FilterSameFrom(list, 1, {})

\* the candidates handed to the reranker: the embedding list, the full-text
\* items whose id it does not hold, duplicates by text removed
ReRankCandidates(embResults, ftResults) ==
    LET ids == {embResults[i].id : i \in 1..Len(embResults)}
    IN filterSameDataResults(
           embResults \o SelectSeq(ftResults, LAMBDA item : item.id \notin ids))

\* (a faulty variant of reRankSearchResult: an empty answer leaves the flag on)
reRankSearchResultKeepsFlag(data, answer) ==
    IF answer.threw THEN [list |-> <<>>, usingReRank |-> FALSE]
    ELSE [list |-> <<>>, usingReRank |-> TRUE]

\* reRankSearchResult: `answer` is what reRankRecall did, it threw or it
\* returned `results`, a list of [id, score]; gives the rerank list and the
\* flag usingReRank is left at
reRankSearchResult(data, answer) ==
    IF answer.threw THEN [list |-> <<>>, usingReRank |-> FALSE]
    ELSE IF Len(answer.results) = 0 THEN [list |-> <<>>, usingReRank |-> FALSE]
    ELSE LET dataIds == {data[i].id : i \in 1..Len(data)}
             found == SelectSeq([i \in 1..Len(answer.results) |->
                                     [id |-> answer.results[i].id,
                                      value |-> answer.results[i].score,
                                      index |-> i - 1]],
                                LAMBDA r : r.id \in dataIds)
         IN [list |-> [i \in 1..Len(found) |->
                          [id |-> found[i].id,
                           score |-> << [type |-> "reRank", value |-> found[i].value,
                                         index |-> found[i].index] >>]],
             usingReRank |-> TRUE]

\* (a faulty variant of scoreFilterOf: under rerank an item without a reRank entry
\* counts as scored 0)
scoreFilterOfDropsUnscored(list, reRankOn, mode, similarity) ==
    IF reRankOn
    THEN [results |-> SelectSeq(list, LAMBDA item :
                         /\ \E i \in 1..Len(item.score) : item.score[i].type = "reRank"
                         /\ \A i \in 1..Len(item.score) :
                                item.score[i].type = "reRank" => item.score[i].value >= similarity),
          usingSimilarityFilter |-> TRUE]
    ELSE IF mode = "embedding"
    THEN [results |-> SelectSeq(list, LAMBDA item :
                         \A i \in 1..Len(item.score) :
                             item.score[i].type = "embedding" => item.score[i].value >= similarity),
          usingSimilarityFilter |-> TRUE]
    ELSE [results |-> list, usingSimilarityFilter |-> FALSE]

\* item.score.find((s) => s.type === type): the first entry of that type,
\* as a sequence of zero or one entry
FindScore(item, type) == Slice(SelectSeq(item.score, LAMBDA e : e.type = type), 1)

BelowSimilarity(item, type, similarity) ==
    /\ FindScore(item, type) # <<>>
    /\ FindScore(item, type)[1].value < similarity

\* the score filter: the kept items and the flag it sets
scoreFilterOf(list, reRankOn, mode, similarity) ==
    IF reRankOn
    THEN [results |-> SelectSeq(list, LAMBDA item : ~BelowSimilarity(item, "reRank", similarity)),
          usingSimilarityFilter |-> TRUE]
    ELSE IF mode = "embedding"
    THEN [results |-> SelectSeq(list, LAMBDA item : ~BelowSimilarity(item, "embedding", similarity)),
          usingSimilarityFilter |-> TRUE]
    ELSE [results |-> list, usingSimilarityFilter |-> FALSE]

\* the final fusion of the three lists and the duplicate filter after it
rrfConcatResults(embResults, ftResults, reRank) ==
    datasetSearchResultConcat(<< [k |-> RrfK, list |-> embResults],
                                 [k |-> RrfK, list |-> ftResults],
                                 [k |-> ReRankK, list |-> reRank] >>)

(***************************************************************************)
(* State of one request.                                                   *)
(***************************************************************************)
VARIABLES
    props,                   \* the request: searchMode, usingReRank, similarity, limit, queries
    reRankModels,            \* global.reRankModels.length
    tokenTable,              \* countPromptTokens, as a table from text to token count
    forbid,                  \* the collections whose forbid flag is set in the store now
    forbidChanges,           \* how often a forbid flag changed so far
    pc,                      \* where searchDatasetData stands
    searchMode,              \* let searchMode, after "init params"
    usingReRank,             \* let usingReRank, the flag the stages share
    usingSimilarityFilter,   \* let usingSimilarityFilter
    forbidCollectionIdList,  \* what getForbidData returned
    embPc,                   \* per query: where its embeddingRecall stands
    ftPc,                    \* per query: where its fullTextRecall stands
    tokensOf,                \* per query: tokens of getVectorsByText
    vectorResults,           \* per query: results of recallFromVectorStore
    embRes,                  \* per query: embeddingRecallResults of embeddingRecall
    ftRes,                   \* per query: fullTextRecallResults of fullTextRecall
    embeddingRecallResList,  \* multiQueryRecall's accumulator of embedding lists
    fullTextRecallResList,   \* multiQueryRecall's accumulator of full-text lists
    totalTokens,             \* multiQueryRecall's token sum
    tokens,                  \* const tokens, the sum multiQueryRecall returned
    embeddingRecallResults,  \* the fused embedding list
    fullTextRecallResults,   \* the fused full-text list
    reRankResults,           \* the rerank list of the final fusion
    fusedResults,            \* rrfConcatResults, the final fusion before the duplicate filter
    scoreFilter,             \* the similarity-filtered list
    response,                \* what searchDatasetData returned, once pc is "done"
    calls,                   \* outbound calls issued so far, per collaborator
    failedAfter,             \* how many queries had pushed their lists when the request failed
    pushOrder,               \* the queries in the order their lists were pushed
    reRankAnswer,            \* what reRankRecall did: not called, threw, or its list
    failed                   \* whether some recall call of the request failed

vars == << props, reRankModels, tokenTable, forbid, forbidChanges, pc, searchMode,
           usingReRank, usingSimilarityFilter, forbidCollectionIdList, embPc, ftPc,
           tokensOf, vectorResults, embRes, ftRes, embeddingRecallResList,
           fullTextRecallResList, totalTokens, tokens, embeddingRecallResults,
           fullTextRecallResults, reRankResults, fusedResults, scoreFilter, response,
           calls, pushOrder, reRankAnswer, failed, failedAfter >>

QueryIds == 1..Len(props.queries)

(***************************************************************************)
(* The token filter.                                                       *)
(***************************************************************************)
countPromptTokens(text) == tokenTable[text]

\* (a faulty variant of TokenLoop: the soft ceiling is tested before the item is kept)
RECURSIVE TokenLoopSoftFirst(_, _, _, _, _)
TokenLoopSoftFirst(list, i, total, results, maxTokens) ==
    IF i > Len(list) THEN results
    ELSE LET now == total + tokenTable[QA(list[i])]
         IN IF now > maxTokens THEN results
            ELSE TokenLoopSoftFirst(list, i + 1, now, Append(results, list[i]), maxTokens)

\* the for-await loop of filterMaxTokensResult from item i on
RECURSIVE TokenLoop(_, _, _, _, _)
TokenLoop(list, i, total, results, maxTokens) ==
    IF i > Len(list) THEN results
    ELSE LET now == total + countPromptTokens(QA(list[i]))
         IN IF now > maxTokens + HardMargin THEN results
            ELSE IF now > maxTokens THEN Append(results, list[i])
            ELSE TokenLoop(list, i + 1, now, Append(results, list[i]), maxTokens)

\* (a faulty variant of filterMaxTokensResult: no fallback to the first item)
filterMaxTokensResultNoFallback(list, maxTokens) ==
    TokenLoop(list, 1, 0, <<>>, maxTokens)

filterMaxTokensResult(list, maxTokens) ==
    LET results == TokenLoop(list, 1, 0, <<>>, maxTokens)
    IN IF Len(results) = 0 THEN Slice(list, 1) ELSE results

(***************************************************************************)
(* Inputs.                                                                 *)
(***************************************************************************)
RECURSIVE SeqsUpTo(_, _)
SeqsUpTo(S, n) ==
    IF n = 0 THEN {<<>>}
    ELSE LET shorter == SeqsUpTo(S, n - 1)
         IN shorter \cup {Append(s, x) : s \in shorter, x \in S}

SearchModes == {"embedding", "fullTextRecall", "mixedRecall", "unknown"}
Similarities == {0, 40}
TokenLimits == {500}
QueryLists == SeqsUpTo(QueryStrings, MaxQueries) \ {<<>>}

\* the token counter's answers for the texts of the indexed passages
IndexedTokenTable ==
    [t \in {DatasetData(p).q \o DatasetData(p).a : p \in IndexedPassages} |->
        IF t = DatasetData(3).q \o DatasetData(3).a THEN 600 ELSE 300]

\* what the reranker may answer: it throws, or it returns up to two of the
\* documents it scores, in any order; 9 is an id the request never sent
ReRankScore(id) ==
    CASE id = 1 -> 20
      [] id = 2 -> 80
      [] id = 3 -> 40
      [] OTHER -> 70

ReRankIds == IndexedPassages \cup {9}

ReRankAnswers ==
    {[called |-> TRUE, threw |-> TRUE, results |-> <<>>]} \cup
    {[called |-> TRUE, threw |-> FALSE,
      results |-> [i \in 1..Len(ids) |-> [id |-> ids[i], score |-> ReRankScore(ids[i])]]] :
        ids \in {t \in SeqsUpTo(ReRankIds, 2) :
                    \A i, j \in 1..Len(t) : i # j => t[i] # t[j]}}

NoAnswer == [called |-> FALSE, threw |-> FALSE, results |-> <<>>]

NoResponse == [searchRes |-> <<>>, tokens |-> 0, searchMode |-> "", limit |-> 0,
               similarity |-> 0, usingReRank |-> FALSE, usingSimilarityFilter |-> FALSE]

NoCalls == [embedding |-> 0, vector |-> 0, find |-> 0, lexical |-> 0, reRank |-> 0]

Init ==
    /\ props \in [searchMode : SearchModes, usingReRank : BOOLEAN,
                  similarity : Similarities, limit : TokenLimits, queries : QueryLists]
    /\ reRankModels \in {0, 1}
    /\ tokenTable = IndexedTokenTable
    /\ forbid = {}
    /\ forbidChanges = 0
    /\ pc = "start"
    /\ searchMode = EffectiveSearchMode(props.searchMode)
    /\ usingReRank = (props.usingReRank /\ reRankModels > 0)
    /\ usingSimilarityFilter = FALSE
    /\ forbidCollectionIdList = {}
    /\ embPc = [i \in QueryIds |-> "idle"]
    /\ ftPc = [i \in QueryIds |-> "idle"]
    /\ tokensOf = [i \in QueryIds |-> 0]
    /\ vectorResults = [i \in QueryIds |-> <<>>]
    /\ embRes = [i \in QueryIds |-> <<>>]
    /\ ftRes = [i \in QueryIds |-> <<>>]
    /\ embeddingRecallResList = <<>>
    /\ fullTextRecallResList = <<>>
    /\ totalTokens = 0
    /\ tokens = 0
    /\ embeddingRecallResults = <<>>
    /\ fullTextRecallResults = <<>>
    /\ reRankResults = <<>>
    /\ fusedResults = <<>>
    /\ scoreFilter = <<>>
    /\ response = NoResponse
    /\ calls = NoCalls
    /\ pushOrder = <<>>
    /\ reRankAnswer = NoAnswer
    /\ failed = FALSE
    /\ failedAfter = 0

(***************************************************************************)
(* The store changes under the request: some collection's forbid flag is   *)
(* switched.  A change is followed as long as the request still has a read *)
(* of the flags ahead of it (getForbidData, or a query's lexical search).  *)
(***************************************************************************)
ForbidChange(c) ==
    /\ \/ pc = "start"
       \/ pc = "recall" /\ \E i \in QueryIds : ftPc[i] = "aggregate"
    /\ forbidChanges < MaxForbidChanges
    /\ forbid' = IF c \in forbid THEN forbid \ {c} ELSE forbid \cup {c}
    /\ forbidChanges' = forbidChanges + 1
    /\ UNCHANGED << props, reRankModels, tokenTable, pc, searchMode, usingReRank,
                    usingSimilarityFilter, forbidCollectionIdList, embPc, ftPc,
                    tokensOf, vectorResults, embRes, ftRes, embeddingRecallResList,
                    fullTextRecallResList, totalTokens, tokens, embeddingRecallResults,
                    fullTextRecallResults, reRankResults, fusedResults, scoreFilter,
                    response, calls, pushOrder, reRankAnswer, failed, failedAfter >>

(***************************************************************************)
(* multiQueryRecall up to the fan-out: getForbidData answers, and every    *)
(* query's embeddingRecall and fullTextRecall are started.  fullTextRecall *)
(* with limit 0 returns at once; embeddingRecall has no such test and      *)
(* calls the embedding service whatever its limit.                         *)
(***************************************************************************)
recallLimit == countRecallLimit(searchMode)

\* where fullTextRecall stands after its first lines
FullTextStart(limit) == IF limit = 0 THEN "done" ELSE "aggregate"

\* where embeddingRecall stands after its first lines
EmbeddingStart(limit) == "vectors"

\* (a faulty variant of AfterRejection: the error is swallowed)
AfterRejectionSwallowed(at) == at

\* searchDatasetData once a recall call has thrown: nothing catches the
\* rejection of Promise.all, the request ends with the error
AfterRejection(at) == IF at \in {"start", "recall"} THEN "failed" ELSE at

GetForbidData ==
    /\ pc = "start"
    /\ forbidCollectionIdList' = forbid
    /\ embPc' = [i \in QueryIds |-> EmbeddingStart(recallLimit.embeddingLimit)]
    /\ ftPc' = [i \in QueryIds |-> FullTextStart(recallLimit.fullTextLimit)]
    /\ calls' = [calls EXCEPT
                   !.find = @ + 1,
                   !.embedding = @ + Cardinality({i \in QueryIds : embPc'[i] = "vectors"}),
                   !.lexical = @ + Len(datasetIds)
                                   * Cardinality({i \in QueryIds : ftPc'[i] = "aggregate"})]
    /\ pc' = "recall"
    /\ UNCHANGED << props, reRankModels, tokenTable, forbid, forbidChanges, searchMode,
                    usingReRank, usingSimilarityFilter, tokensOf, vectorResults,
                    embRes, ftRes, embeddingRecallResList, fullTextRecallResList,
                    totalTokens, tokens, embeddingRecallResults, fullTextRecallResults,
                    reRankResults, fusedResults, scoreFilter, response, pushOrder,
                    reRankAnswer, failed, failedAfter >>

GetForbidDataFails ==
    /\ pc = "start"
    /\ calls' = [calls EXCEPT !.find = @ + 1]
    /\ failed' = TRUE
    /\ pc' = AfterRejection(pc)
    /\ UNCHANGED << props, reRankModels, tokenTable, forbid, forbidChanges, searchMode,
                    usingReRank, usingSimilarityFilter, forbidCollectionIdList, embPc,
                    ftPc, tokensOf, vectorResults, embRes, ftRes,
                    embeddingRecallResList, fullTextRecallResList, totalTokens, tokens,
                    embeddingRecallResults, fullTextRecallResults, reRankResults,
                    fusedResults, scoreFilter, response, pushOrder, reRankAnswer,
                    failedAfter >>

(***************************************************************************)
(* The continuation of a query's inner Promise.all: it runs as soon as the *)
(* later of the query's two recalls has returned.                          *)
(***************************************************************************)
Push(i, cost, embList, ftList) ==
    /\ totalTokens' = totalTokens + cost
    /\ embeddingRecallResList' = Append(embeddingRecallResList, embList)
    /\ fullTextRecallResList' = Append(fullTextRecallResList, ftList)
    /\ pushOrder' = Append(pushOrder, i)

\* multiQueryRecall is left, by its return or by the rejection of its
\* Promise.all: its locals and those of the recalls are gone
DropRecallLocals ==
    /\ embPc' = [i \in QueryIds |-> "idle"]
    /\ ftPc' = [i \in QueryIds |-> "idle"]
    /\ tokensOf' = [i \in QueryIds |-> 0]
    /\ vectorResults' = [i \in QueryIds |-> <<>>]
    /\ embRes' = [i \in QueryIds |-> <<>>]
    /\ ftRes' = [i \in QueryIds |-> <<>>]
    /\ embeddingRecallResList' = <<>>
    /\ fullTextRecallResList' = <<>>
    /\ totalTokens' = 0
    /\ pushOrder' = <<>>
    /\ forbidCollectionIdList' = {}

NoPush ==
    UNCHANGED << totalTokens, embeddingRecallResList, fullTextRecallResList, pushOrder >>

(***************************************************************************)
(* embeddingRecall of query i.  Its three awaits (the embedding service,   *)
(* the vector index, the document store) read only the query, the limit    *)
(* and the forbidCollectionIdList it was given, and write only its own     *)
(* locals: they commute with every other action, and the recall is taken   *)
(* as one step, made when its last await returns.                          *)
(***************************************************************************)
EmbeddingRecall(i) ==
    /\ pc = "recall"
    /\ embPc[i] = "vectors"
    /\ tokensOf' = [tokensOf EXCEPT ![i] = EmbeddingTokens(props.queries[i])]
    /\ vectorResults' = [vectorResults EXCEPT ![i] =
           recallFromVectorStore(props.queries[i], recallLimit.embeddingLimit,
                                 forbidCollectionIdList)]
    /\ embRes' = [embRes EXCEPT ![i] = HydrateEmbedding(vectorResults'[i])]
    /\ calls' = [calls EXCEPT !.vector = @ + 1, !.find = @ + 1]
    /\ embPc' = [embPc EXCEPT ![i] = "done"]
    /\ IF ftPc[i] = "done" THEN Push(i, tokensOf'[i], embRes'[i], ftRes[i]) ELSE NoPush
    /\ UNCHANGED << props, reRankModels, tokenTable, forbid, forbidChanges, pc,
                    searchMode, usingReRank, usingSimilarityFilter,
                    forbidCollectionIdList, ftPc, ftRes, tokens,
                    embeddingRecallResults, fullTextRecallResults, reRankResults,
                    fusedResults, scoreFilter, response, reRankAnswer, failed,
                    failedAfter >>

\* one of the calls of embeddingRecall throws; the request ends with the
\* error, and what its other recalls still do is not followed
EmbeddingRecallFails(i) ==
    /\ pc = "recall"
    /\ embPc[i] = "vectors"
    /\ failedAfter' = Len(pushOrder)
    /\ DropRecallLocals
    /\ failed' = TRUE
    /\ pc' = AfterRejection(pc)
    /\ UNCHANGED << props, reRankModels, tokenTable, forbid, forbidChanges, searchMode,
                    usingReRank, usingSimilarityFilter, tokens, embeddingRecallResults,
                    fullTextRecallResults, reRankResults, fusedResults, scoreFilter,
                    response, calls, reRankAnswer >>

(***************************************************************************)
(* fullTextRecall of query i, when its limit is not 0.  The aggregates of  *)
(* the datasets read the forbid flags as they are when they run; the find  *)
(* of the collections after them reads nothing the model holds, and the    *)
(* recall is taken as one step.                                            *)
(***************************************************************************)
FullTextRecall(i) ==
    /\ pc = "recall"
    /\ ftPc[i] = "aggregate"
    /\ ftRes' = [ftRes EXCEPT ![i] =
           FullTextSearch(props.queries[i], recallLimit.fullTextLimit, forbid)]
    /\ calls' = [calls EXCEPT !.find = @ + 1]
    /\ ftPc' = [ftPc EXCEPT ![i] = "done"]
    /\ IF embPc[i] = "done" THEN Push(i, tokensOf[i], embRes[i], ftRes'[i]) ELSE NoPush
    /\ UNCHANGED << props, reRankModels, tokenTable, forbid, forbidChanges, pc,
                    searchMode, usingReRank, usingSimilarityFilter,
                    forbidCollectionIdList, embPc, tokensOf, vectorResults, embRes,
                    tokens, embeddingRecallResults, fullTextRecallResults,
                    reRankResults, fusedResults, scoreFilter, response, reRankAnswer,
                    failed, failedAfter >>

\* one of the calls of fullTextRecall throws; the request ends with the
\* error, and what its other recalls still do is not followed
FullTextRecallFails(i) ==
    /\ pc = "recall"
    /\ ftPc[i] = "aggregate"
    /\ failedAfter' = Len(pushOrder)
    /\ DropRecallLocals
    /\ failed' = TRUE
    /\ pc' = AfterRejection(pc)
    /\ UNCHANGED << props, reRankModels, tokenTable, forbid, forbidChanges, searchMode,
                    usingReRank, usingSimilarityFilter, tokens, embeddingRecallResults,
                    fullTextRecallResults, reRankResults, fusedResults, scoreFilter,
                    response, calls, reRankAnswer >>

(***************************************************************************)
(* searchDatasetData after the recall.                                     *)
(***************************************************************************)
\* (a faulty variant of Assemble: the score filter reads the flag as it was set by
\* "init params", not as the rerank stage left it)
AssembleStaleFlag(embResults, ftResults, reRank, reRankOn) ==
    LET fused == rrfConcatResults(embResults, ftResults, reRank)
        filtered == scoreFilterOf(filterSameDataResults(fused),
                                  props.usingReRank /\ reRankModels > 0, searchMode,
                                  props.similarity)
    IN [fused |-> fused, scoreFilter |-> filtered.results,
        usingSimilarityFilter |-> filtered.usingSimilarityFilter]

\* the final fusion, the duplicate filter and the score filter, which run
\* without an await once the rerank list is there
Assemble(embResults, ftResults, reRank, reRankOn) ==
    LET fused == rrfConcatResults(embResults, ftResults, reRank)
        filtered == scoreFilterOf(filterSameDataResults(fused), reRankOn, searchMode,
                                  props.similarity)
    IN [fused |-> fused, scoreFilter |-> filtered.results,
        usingSimilarityFilter |-> filtered.usingSimilarityFilter]

\* Promise.all of the fan-out resolves: every query's lists were pushed.
\* multiQueryRecall fuses them and returns, and its locals and those of the
\* recalls are gone; searchDatasetData goes on to its next await.
MultiQueryRecallReturns ==
    /\ pc = "recall"
    /\ Len(pushOrder) = Len(props.queries)
    /\ embeddingRecallResults' = RrfRecall(embeddingRecallResList, recallLimit.embeddingLimit)
    /\ fullTextRecallResults' = RrfRecall(fullTextRecallResList, recallLimit.fullTextLimit)
    /\ tokens' = totalTokens
    /\ DropRecallLocals
    /\ IF usingReRank
       THEN /\ calls' = [calls EXCEPT !.reRank = @ + 1]
            /\ pc' = "reRank"
            /\ UNCHANGED << reRankResults, fusedResults, scoreFilter, usingSimilarityFilter >>
       ELSE LET r == Assemble(embeddingRecallResults', fullTextRecallResults', <<>>,
                              usingReRank)
            IN /\ reRankResults' = <<>>
               /\ fusedResults' = r.fused
               /\ scoreFilter' = r.scoreFilter
               /\ usingSimilarityFilter' = r.usingSimilarityFilter
               /\ pc' = "tokens"
               /\ UNCHANGED calls
    /\ UNCHANGED << props, reRankModels, tokenTable, forbid, forbidChanges, searchMode,
                    usingReRank, response, reRankAnswer, failed, failedAfter >>

\* reRankRecall throws or returns
ReRankReturns(answer) ==
    /\ pc = "reRank"
    /\ reRankAnswer' = answer
    /\ LET merged == reRankSearchResult(
                         ReRankCandidates(embeddingRecallResults, fullTextRecallResults),
                         answer)
           r == Assemble(embeddingRecallResults, fullTextRecallResults, merged.list,
                         merged.usingReRank)
       IN /\ usingReRank' = merged.usingReRank
          /\ reRankResults' = merged.list
          /\ fusedResults' = r.fused
          /\ scoreFilter' = r.scoreFilter
          /\ usingSimilarityFilter' = r.usingSimilarityFilter
    /\ pc' = "tokens"
    /\ UNCHANGED << props, reRankModels, tokenTable, forbid, forbidChanges, searchMode,
                    forbidCollectionIdList, embPc, ftPc, tokensOf, vectorResults,
                    embRes, ftRes, embeddingRecallResList, fullTextRecallResList,
                    totalTokens, tokens, embeddingRecallResults, fullTextRecallResults,
                    response, calls, pushOrder, failed, failedAfter >>

\* the token filter and the return
CountTokens ==
    /\ pc = "tokens"
    /\ response' = [searchRes |-> filterMaxTokensResult(scoreFilter, props.limit),
                    tokens |-> tokens,
                    searchMode |-> searchMode,
                    limit |-> props.limit,
                    similarity |-> props.similarity,
                    usingReRank |-> usingReRank,
                    usingSimilarityFilter |-> usingSimilarityFilter]
    /\ pc' = "done"
    /\ UNCHANGED << props, reRankModels, tokenTable, forbid, forbidChanges, searchMode,
                    usingReRank, usingSimilarityFilter, forbidCollectionIdList, embPc,
                    ftPc, tokensOf, vectorResults, embRes, ftRes,
                    embeddingRecallResList, fullTextRecallResList, totalTokens, tokens,
                    embeddingRecallResults, fullTextRecallResults, reRankResults,
                    fusedResults, scoreFilter, calls, pushOrder, reRankAnswer, failed,
                    failedAfter >>

Next ==
    \/ \E c \in Collections : ForbidChange(c)
    \/ GetForbidData
    \/ GetForbidDataFails
    \/ \E i \in QueryIds : EmbeddingRecall(i)
    \/ \E i \in QueryIds : EmbeddingRecallFails(i)
    \/ \E i \in QueryIds : FullTextRecall(i)
    \/ \E i \in QueryIds : FullTextRecallFails(i)
    \/ MultiQueryRecallReturns
    \/ \E answer \in ReRankAnswers : ReRankReturns(answer)
    \/ CountTokens

Spec == Init /\ [][Next]_vars

(***************************************************************************)
(* The token filter on its own: the filtered list, the token counter's     *)
(* answers and the token limit are drawn from bounded sets, and the only   *)
(* step is the token filter with the return.                               *)
(***************************************************************************)
TrimCosts == {30, 300, 700}
TrimLimits == {0, 100, 1000}
TrimTexts == {DatasetData(p).q \o DatasetData(p).a : p \in 1..MaxTrimLen}
TrimLists == {[i \in 1..n |-> [id |-> i, score |-> <<>>]] : n \in 0..MaxTrimLen}

InitTrim ==
    /\ props \in [searchMode : {"fullTextRecall"}, usingReRank : {FALSE},
                  similarity : {0}, limit : TrimLimits, queries : {<<"qa">>}]
    /\ reRankModels = 0
    /\ tokenTable \in [TrimTexts -> TrimCosts]
    /\ scoreFilter \in TrimLists
    /\ pc = "tokens"
    /\ forbid = {}
    /\ forbidChanges = 0
    /\ searchMode = EffectiveSearchMode(props.searchMode)
    /\ usingReRank = FALSE
    /\ usingSimilarityFilter = FALSE
    /\ forbidCollectionIdList = {}
    /\ embPc = [i \in QueryIds |-> "idle"]
    /\ ftPc = [i \in QueryIds |-> "idle"]
    /\ tokensOf = [i \in QueryIds |-> 0]
    /\ vectorResults = [i \in QueryIds |-> <<>>]
    /\ embRes = [i \in QueryIds |-> <<>>]
    /\ ftRes = [i \in QueryIds |-> <<>>]
    /\ embeddingRecallResList = <<>>
    /\ fullTextRecallResList = <<>>
    /\ totalTokens = 0
    /\ tokens = 0
    /\ embeddingRecallResults = <<>>
    /\ fullTextRecallResults = scoreFilter
    /\ reRankResults = <<>>
    /\ fusedResults = scoreFilter
    /\ response = NoResponse
    /\ calls = NoCalls
    /\ pushOrder = <<>>
    /\ reRankAnswer = NoAnswer
    /\ failed = FALSE
    /\ failedAfter = 0

NextTrim == CountTokens

SpecTrim == InitTrim /\ [][NextTrim]_vars

(***************************************************************************)
(* Helpers of the properties.                                              *)
(***************************************************************************)
\* the entries of one type an item carries
EntriesOf(item, type) == {item.score[i] : i \in {j \in 1..Len(item.score) : item.score[j].type = type}}

\* the first entry of a type that an item carries (the one the code's find
\* returns) is below the threshold; an item fused from several lists of one
\* source carries one entry of that type per list
FirstEntryBelow(item, type, threshold) ==
    \E i \in 1..Len(item.score) :
        /\ item.score[i].type = type
        /\ item.score[i].value < threshold
        /\ \A j \in 1..(i - 1) : item.score[j].type # type

\* two items have the same text once everything but letters and digits is removed
SameStrippedText(x, y) == StripText(QA(x)) = StripText(QA(y))

\* the token cost of the first k items of the filtered list
RECURSIVE CostOfFirst(_)
CostOfFirst(k) ==
    IF k = 0 THEN 0 ELSE CostOfFirst(k - 1) + tokenTable[QA(scoreFilter[k])]

\* the first item of the filtered list alone is above the hard ceiling
FirstAboveHardCeiling ==
    /\ scoreFilter # <<>>
    /\ CostOfFirst(1) > props.limit + HardMargin

\* the filtered list after the duplicate filter, before the score filter
DedupedResults == filterSameDataResults(fusedResults)

\* the reranker was called and threw or returned nothing
ReRankDegraded == reRankAnswer.called /\ (reRankAnswer.threw \/ reRankAnswer.results = <<>>)

\* the per-query lists in the order of the queries
InQueryOrder(res) == [i \in 1..Len(props.queries) |-> res[i]]

RECURSIVE SumEmbeddingTokens(_)
SumEmbeddingTokens(n) ==
    IF n = 0 THEN 0 ELSE SumEmbeddingTokens(n - 1) + EmbeddingTokens(props.queries[n])

(***************************************************************************)
(* C1: the token filter never returns an empty list for a non-empty        *)
(* filtered list, and when the first item alone is above tokenLimit + 500  *)
(* (the loop keeps nothing) the result is exactly that first item.         *)
(***************************************************************************)
TrimNeverEmpty ==
    (pc = "done" /\ scoreFilter # <<>>) =>
        /\ Len(response.searchRes) >= 1
        /\ FirstAboveHardCeiling => response.searchRes = <<scoreFilter[1]>>

TrimFallbackTaken ==
    /\ pc = "done"
    /\ Len(scoreFilter) >= 2
    /\ FirstAboveHardCeiling
    /\ response.searchRes = <<scoreFilter[1]>>

(***************************************************************************)
(* C2: the result of the token filter is a prefix of the filtered list;    *)
(* unless it is the one-item fallback, its cost is at most tokenLimit +    *)
(* 500, every proper prefix of it costs at most tokenLimit, and if an item *)
(* follows it, either the result costs more than tokenLimit (the filter    *)
(* stopped after keeping its last item) or that next item would bring the  *)
(* cost above tokenLimit + 500 (it was left out).                          *)
(***************************************************************************)
TrimStoppingRule ==
    pc = "done" =>
        LET n == Len(response.searchRes)
        IN /\ n <= Len(scoreFilter)
           /\ response.searchRes = SubSeq(scoreFilter, 1, n)
           /\ ~FirstAboveHardCeiling =>
                 /\ CostOfFirst(n) <= props.limit + HardMargin
                 /\ \A k \in 1..(n - 1) : CostOfFirst(k) <= props.limit
                 /\ n < Len(scoreFilter) =>
                       \/ CostOfFirst(n) > props.limit
                       \/ CostOfFirst(n + 1) > props.limit + HardMargin

\* five items of 30 tokens against a limit of 100: the first four are returned
TrimFourOfFive ==
    /\ pc = "done"
    /\ props.limit = 100
    /\ Len(scoreFilter) = 5
    /\ \A k \in 1..5 : tokenTable[QA(scoreFilter[k])] = 30
    /\ response.searchRes = SubSeq(scoreFilter, 1, 4)

(***************************************************************************)
(* C3: when the reranker was called and threw or returned nothing, the     *)
(* request goes on (it is never failed), the rerank list of the final      *)
(* fusion is empty, the flag is off for the stages after it and the        *)
(* response says usingReRank = false; and a response says usingReRank =    *)
(* true only if reranking was requested, a reranker is configured and the  *)
(* reranker returned a non-empty list.                                     *)
(***************************************************************************)
ReRankSoftDegrade ==
    /\ reRankAnswer.called => pc \in {"tokens", "done"}
    /\ ReRankDegraded =>
          /\ reRankResults = <<>>
          /\ ~usingReRank
          /\ pc = "done" => ~response.usingReRank
    /\ (pc = "done" /\ response.usingReRank) =>
          /\ props.usingReRank
          /\ reRankModels > 0
          /\ reRankAnswer.called
          /\ ~reRankAnswer.threw
          /\ reRankAnswer.results # <<>>

ReRankThrewRequestAnswered ==
    /\ pc = "done"
    /\ props.usingReRank
    /\ reRankAnswer.called
    /\ reRankAnswer.threw
    /\ response.searchRes # <<>>
    /\ ~response.usingReRank

(***************************************************************************)
(* C4: the score filter reads the rerank flag as the rerank stage left it: *)
(* usingSimilarityFilter is true exactly when reranking is still on or the *)
(* effective mode is embedding.  After a degraded rerank the embedding     *)
(* threshold is applied in embedding mode, and nothing is filtered in the  *)
(* other modes.                                                            *)
(***************************************************************************)
SimilarityFilterChoice ==
    /\ pc \in {"tokens", "done"} =>
          /\ usingSimilarityFilter = (usingReRank \/ searchMode = "embedding")
          /\ (ReRankDegraded /\ searchMode = "embedding") =>
                /\ usingSimilarityFilter
                /\ \A i \in 1..Len(DedupedResults) :
                      (DedupedResults[i] \in Range(scoreFilter))
                        = ~FirstEntryBelow(DedupedResults[i], "embedding", props.similarity)
          /\ (ReRankDegraded /\ searchMode # "embedding") =>
                /\ ~usingSimilarityFilter
                /\ scoreFilter = DedupedResults
    /\ pc = "done" =>
          response.usingSimilarityFilter
            = (response.usingReRank \/ response.searchMode = "embedding")

ReRankDegradedInMixedMode ==
    /\ pc = "done"
    /\ ReRankDegraded
    /\ response.searchMode = "mixedRecall"
    /\ ~response.usingSimilarityFilter
    /\ \E i \in 1..Len(scoreFilter) :
          FirstEntryBelow(scoreFilter[i], "embedding", props.similarity)

(***************************************************************************)
(* C5: once a recall call of any query has failed, the request is failed:  *)
(* no stage after the recall has run and no response exists, whatever the  *)
(* other queries had delivered.                                            *)
(***************************************************************************)
AllOrNothingRecall ==
    /\ failed =>
          /\ pc = "failed"
          /\ response = NoResponse
          /\ embeddingRecallResults = <<>> /\ fullTextRecallResults = <<>>
          /\ fusedResults = <<>> /\ scoreFilter = <<>>
          /\ ~reRankAnswer.called
    /\ pc \in {"reRank", "tokens", "done"} => ~failed

FailedAfterOtherQueryDelivered ==
    /\ pc = "failed"
    /\ failed
    /\ failedAfter >= 1
    /\ failedAfter < Len(props.queries)

(***************************************************************************)
(* C6: a recall whose limit is 0 issues no call: in fullTextRecall mode    *)
(* neither the embedding service nor the vector index is called and the    *)
(* token cost is 0; in embedding mode no lexical query is issued.          *)
(***************************************************************************)
ZeroQuotaIssuesNoCall ==
    /\ searchMode = "fullTextRecall" =>
          /\ calls.embedding = 0
          /\ calls.vector = 0
          /\ tokens = 0
          /\ pc = "done" => response.tokens = 0
    /\ searchMode = "embedding" => calls.lexical = 0

(***************************************************************************)
(* C7: every recall of the request excludes the passages of the same       *)
(* collections, those of the forbidden set computed before the fan-out:    *)
(* each query's vector results and each query's lexical results are what   *)
(* that set gives.                                                         *)
(***************************************************************************)
SingleForbidSnapshot ==
    pc = "recall" =>
        \A i \in QueryIds :
            /\ embPc[i] = "done" =>
                  vectorResults[i] = recallFromVectorStore(props.queries[i],
                                         recallLimit.embeddingLimit, forbidCollectionIdList)
            /\ (ftPc[i] = "done" /\ recallLimit.fullTextLimit # 0) =>
                  ftRes[i] = FullTextSearch(props.queries[i], recallLimit.fullTextLimit,
                                            forbidCollectionIdList)

(***************************************************************************)
(* C8: while reranking is on, the score filter drops an item of the        *)
(* deduplicated fused list if and only if it carries a reRank entry below  *)
(* the similarity threshold; an item without a reRank entry is kept, and   *)
(* the kept items stay in order.                                           *)
(***************************************************************************)
ReRankFilterDropsOnlyScored ==
    (pc \in {"tokens", "done"} /\ usingReRank) =>
        /\ \A i \in 1..Len(DedupedResults) :
              (DedupedResults[i] \notin Range(scoreFilter))
                = FirstEntryBelow(DedupedResults[i], "reRank", props.similarity)
        /\ scoreFilter = SelectSeq(DedupedResults, LAMBDA item : item \in Range(scoreFilter))

UnscoredKeptScoredDropped ==
    /\ pc = "done"
    /\ usingReRank
    /\ \E i \in 1..Len(scoreFilter) :
          /\ EntriesOf(scoreFilter[i], "reRank") = {}
          /\ FirstEntryBelow(scoreFilter[i], "embedding", props.similarity)
    /\ \E i \in 1..Len(DedupedResults) :
          /\ DedupedResults[i] \notin Range(scoreFilter)
          /\ ~FirstEntryBelow(DedupedResults[i], "embedding", props.similarity)

(***************************************************************************)
(* C9: no two passages of the returned searchRes have the same text once   *)
(* everything but letters and digits is removed; a returned passage is the *)
(* earliest of the fused list with its text; and the returned passages are *)
(* in the order of the fused list.                                         *)
(***************************************************************************)
NoDuplicateTextReturned ==
    pc = "done" =>
        LET res == response.searchRes
        IN /\ \A i, j \in 1..Len(res) : SameStrippedText(res[i], res[j]) => i = j
           /\ \A i \in 1..Len(res) :
                 \E k \in 1..Len(fusedResults) :
                    /\ fusedResults[k] = res[i]
                    /\ \A m \in 1..(k - 1) : ~SameStrippedText(fusedResults[m], res[i])
           /\ res = SelectSeq(fusedResults, LAMBDA item : item \in Range(res))

DuplicateTextDropped ==
    /\ pc = "done"
    /\ Len(response.searchRes) >= 2
    /\ \E k, m \in 1..Len(fusedResults) :
          /\ k < m
          /\ fusedResults[k].id # fusedResults[m].id
          /\ QA(fusedResults[k]) # QA(fusedResults[m])
          /\ SameStrippedText(fusedResults[k], fusedResults[m])
          /\ fusedResults[k] \in Range(response.searchRes)
          /\ fusedResults[m] \notin Range(response.searchRes)

(***************************************************************************)
(* C10: whatever the order in which the queries' recalls complete, what    *)
(* multiQueryRecall is about to return is the same: the fused lists, cut   *)
(* to their limits, are those of the per-query lists taken in the order of *)
(* the queries, and the token total is the sum of the queries' costs.      *)
(***************************************************************************)
CompletionOrderIrrelevant ==
    (pc = "recall" /\ Len(pushOrder) = Len(props.queries)) =>
        /\ RrfRecall(embeddingRecallResList, recallLimit.embeddingLimit)
             = RrfRecall(InQueryOrder(embRes), recallLimit.embeddingLimit)
        /\ RrfRecall(fullTextRecallResList, recallLimit.fullTextLimit)
             = RrfRecall(InQueryOrder(ftRes), recallLimit.fullTextLimit)
        /\ totalTokens = SumEmbeddingTokens(Len(props.queries))

====
